---- MODULE Spec2Model ----
(***************************************************************************)
(* TRPG script editor (src/main.py): one recomputation cycle of the        *)
(* Streamlit script -- syntax check, parse_story, chart, upload, export.   *)
(*                                                                         *)
(* A document is modelled as the sequence of its JSON tokens (whitespace   *)
(* carries no meaning in JSON).  The four punctuation tokens are the       *)
(* strings "{", "}", ":" and ","; any other token is a string literal with *)
(* that content.  The JSON alphabet is restricted to objects and strings.  *)
(***************************************************************************)
EXTENDS Integers, Sequences, FiniteSets, TLC

\* ---------------------------------------------------------------- bounds
\* Largest number of keys (events and options together) of a generated document.
MaxSize == 4

\* ------------------------------------------------------- decoded values
Punct == {"{", "}", ":", ","}

Str(s) == [kind |-> "str", s |-> s, items |-> <<>>]

Dict(items) == [kind |-> "dict", s |-> "", items |-> items]

Keys(items) == {items[i][1] : i \in 1..Len(items)}

\* Position of x in the list xs, 0 when absent (list.index, which raises then).
Index(xs, x) ==
    IF \E i \in 1..Len(xs) : xs[i] = x
    THEN CHOOSE i \in 1..Len(xs) : xs[i] = x /\ \A j \in 1..(i-1) : xs[j] # x
    ELSE 0

\* dict[k] = v : a key already present keeps its position and takes the new value.
Put(items, k, v) ==
    IF k \in Keys(items)
    THEN [i \in 1..Len(items) |-> IF items[i][1] = k THEN <<k, v>> ELSE items[i]]
    ELSE Append(items, <<k, v>>)

\* ------------------------------------------------------------ json.loads
Fail == [ok |-> FALSE, val |-> Str(""), next |-> 0]

RECURSIVE ParseValue(_, _), ParseMembers(_, _, _)

ParseValue(t, i) ==
    IF i > Len(t) THEN Fail
    ELSE IF t[i] = "{"
         THEN IF i + 1 <= Len(t) /\ t[i+1] = "}"
              THEN [ok |-> TRUE, val |-> Dict(<<>>), next |-> i + 2]
              ELSE ParseMembers(t, i + 1, <<>>)
         ELSE IF t[i] \in Punct THEN Fail
              ELSE [ok |-> TRUE, val |-> Str(t[i]), next |-> i + 1]

ParseMembers(t, i, acc) ==
    IF i + 1 > Len(t) \/ t[i] \in Punct \/ t[i+1] # ":" THEN Fail
    ELSE LET r == ParseValue(t, i + 2) IN
         IF ~r.ok \/ r.next > Len(t) THEN Fail
         ELSE IF t[r.next] = ","
              THEN ParseMembers(t, r.next + 1, Put(acc, t[i], r.val))
              ELSE IF t[r.next] = "}"
                   THEN [ok |-> TRUE, val |-> Dict(Put(acc, t[i], r.val)),
                         next |-> r.next + 1]
                   ELSE Fail

\* json.loads(text): the decoded value, or Fail for json.JSONDecodeError.
Loads(t) ==
    LET r == ParseValue(t, 1) IN
    IF r.ok /\ r.next = Len(t) + 1 THEN r ELSE Fail

\* ------------------------------------------------------------ json.dumps
RECURSIVE Dumps(_), DumpItems(_)

DumpItems(items) ==
    IF items = <<>> THEN <<>>
    ELSE <<items[1][1], ":">> \o Dumps(items[1][2])
         \o (IF Len(items) > 1 THEN <<",">> \o DumpItems(Tail(items)) ELSE <<>>)

Dumps(v) ==
    IF v.kind = "dict" THEN <<"{">> \o DumpItems(v.items) \o <<"}">>
    ELSE <<v.s>>

\* ------------------------------------------------------------ documents
EventNames == {"S", "T"}

OptionNames == {"A", "B"}

OutcomeNames == {"E1", "S"}

RECURSIVE Size(_), SizeItems(_)

SizeItems(items) ==
    IF items = <<>> THEN 0
    ELSE 1 + Size(items[1][2]) + SizeItems(Tail(items))

Size(v) == IF v.kind = "dict" THEN SizeItems(v.items) ELSE 0

RECURSIVE EventMaps(_), OptMaps(_)

\* Ordered event -> options mappings with at most n keys in all.
EventMaps(n) ==
    IF n <= 0 THEN {<<>>}
    ELSE {<<>>} \cup UNION { UNION {
           { <<<<e, Dict(om)>>>> \o rest :
               rest \in {r \in EventMaps(n - 1 - SizeItems(om)) : e \notin Keys(r)} }
           : om \in OptMaps(n - 1) } : e \in EventNames }

\* Ordered option -> outcome mappings with at most n keys in all.
OptMaps(n) ==
    IF n <= 0 THEN {<<>>}
    ELSE {<<>>} \cup UNION { UNION {
           { <<<<o, v>>>> \o rest :
               rest \in {r \in OptMaps(n - 1 - Size(v)) : o \notin Keys(r)} }
           : v \in {Str(x) : x \in OutcomeNames}
                   \cup {Dict(em) : em \in EventMaps(n - 1)} } : o \in OptionNames }

StoryTrees == {Dict(em) : em \in EventMaps(MaxSize)}

\* The document the application starts with (the session's first content).
DefaultContent ==
    Dumps(Dict(<< <<"S", Dict(<< <<"A", Str("E1")>>, <<"B", Str("E2")>>,
        <<"C", Dict(<< <<"T", Dict(<< <<"E", Str("E3")>>, <<"F", Str("E1")>> >>)>> >>)>>,
        <<"D", Dict(<< <<"T", Dict(<< <<"G", Str("E1")>>, <<"H", Str("E4")>> >>)>> >>)>>
        >>)>> >>))

Scenario1Doc == <<"{", "S", ":", "{", "A", ":", "E1", ",", "B", ":", "E2", "}", "}">>

Scenario2Doc ==
    <<"{", "S", ":", "{", "A", ":", "{", "T", ":", "{", "C", ":", "E1", "}", "}",
      ",", "B", ":", "E2", "}", "}">>

Scenario3Doc ==
    <<"{", "S", ":", "{", "A", ":", "{", "S", ":", "{", "B", ":", "E1", "}", "}", "}", "}">>

\* Valid JSON that is not a story: string roots, an event or a nested event
\* that maps to a string, and a repeated key.
OddDocs ==
    { <<"x">>, <<"">>,
      <<"{", "S", ":", "x", "}">>,
      <<"{", "S", ":", "{", "A", ":", "E1", "}", ",", "T", ":", "x", "}">>,
      <<"{", "S", ":", "{", "A", ":", "{", "T", ":", "x", "}", "}", "}">>,
      <<"{", "S", ":", "{", "}", ",", "T", ":", "{", "}", ",",
        "S", ":", "{", "A", ":", "E1", "}", "}">> }

ValidDocs ==
    {Dumps(t) : t \in StoryTrees}
        \cup {DefaultContent, Scenario1Doc, Scenario2Doc, Scenario3Doc} \cup OddDocs

DeleteAt(t, i) == SubSeq(t, 1, i - 1) \o SubSeq(t, i + 1, Len(t))

\* Every valid document with one token struck out: mostly syntax errors.
BrokenDocs == UNION { {DeleteAt(t, i) : i \in 1..Len(t)} : t \in ValidDocs }

Docs == ValidDocs \cup BrokenDocs

\* Files offered to the upload form.
UploadFiles ==
    { Scenario3Doc, <<"{", "}">>, <<"{", "S", ":", "{", "A", ":", "}">>,
      <<"{", "U", ":", "{", "A", ":", "E1", "}", "}">>,
      <<"{", "S", ":", "{", "}", ",", "T", ":", "{", "}", ",",
        "S", ":", "{", "A", ":", "E1", "}", "}">> }

\* -------------------------------------------------------------- the state
VARIABLES
    content,     \* st.session_state["content"], the editor's text
    pc,          \* position of the script run
    ret,         \* what parse_story returned: "pending", "none" or "graph"
    nodes,       \* parse_story's work stack, top at the end
    node,        \* the popped node being processed
    todo,        \* position of the for loop in node.children.items()
    branch_idx,
    events,
    labels,
    links,
    chart,       \* the Sankey data handed to st.plotly_chart
    exported,    \* data of the download button
    message,     \* st.error / st.success / st.warning shown in this run
    visited      \* history: the nodes popped so far, in order

vars == <<content, pc, ret, nodes, node, todo, branch_idx, events, labels, links,
          chart, exported, message, visited>>

Node(name, children, id) == [name |-> name, children |-> children, id |-> id]

Link(event, option, children) == [event |-> event, option |-> option, children |-> children]

NoNode == Node("", Str(""), "")

NoChart == [drawn |-> FALSE, sources |-> <<>>, targets |-> <<>>, options |-> <<>>]

\* chr(ord("A") + idx) for idx = 0, 1, ...
AsciiFromA ==
    <<"A", "B", "C", "D", "E", "F", "G", "H", "I", "J", "K", "L", "M",
      "N", "O", "P", "Q", "R", "S", "T", "U", "V", "W", "X", "Y", "Z",
      "[", "\\", "]", "^", "_">>

\* Slip: the position is dropped, every top-level event gets "A".
SeedIdFixed(idx) == AsciiFromA[1]

SeedId(idx) == AsciiFromA[idx + 1]

ChildId(id, idx, bidx) == id \o "-" \o ToString(idx + bidx)

\* Slip: the dash of the suffix is missing.
EndIdNoDash(id) == id \o "end"

EndId(id) == id \o "-end"

\* Slip: the syntax check accepts everything.
AlwaysHealthy(json_data) == TRUE

check_json_health(json_data) == Loads(json_data).ok

\* not story_data or not isinstance(story_data, dict)
BadRoot(story_data) ==
    \/ story_data.kind = "dict" /\ story_data.items = <<>>
    \/ story_data.kind = "str" /\ story_data.s = ""
    \/ story_data.kind # "dict"

\* The comprehension that seeds the work list.
SeedNodes(story_data) ==
    [i \in 1..Len(story_data.items) |->
        Node(story_data.items[i][1], story_data.items[i][2], SeedId(i - 1))]

\* Slip: nodes.pop(0), a queue instead of a stack.
ListPopFirst(stack) == [node |-> stack[1], rest |-> Tail(stack)]

\* nodes.pop(): the last element leaves the list.
ListPop(stack) == [node |-> stack[Len(stack)], rest |-> SubSeq(stack, 1, Len(stack) - 1)]

\* Slip: a known name gets a fresh labels entry instead of growing its own.
RegisterFreshEntry(ev, lb, name, id) ==
    IF Index(ev, name) = 0
    THEN [events |-> Append(ev, name), labels |-> Append(lb, <<id>>)]
    ELSE [events |-> ev, labels |-> Append(lb, <<id>>)]

\* Slip: no membership test, every occurrence is appended as a new event.
RegisterNoDedup(ev, lb, name, id) ==
    [events |-> Append(ev, name), labels |-> Append(lb, <<id>>)]

\* "if name not in events: append both, else: append id to the name's labels".
Register(ev, lb, name, id) ==
    IF Index(ev, name) = 0
    THEN [events |-> Append(ev, name), labels |-> Append(lb, <<id>>)]
    ELSE [events |-> ev,
          labels |-> [lb EXCEPT ![Index(ev, name)] = Append(@, id)]]

\* Slip: only the first entry of the nested mapping is linked.
BranchLinksFirstOnly(name, option, outcome) ==
    IF outcome.items = <<>> THEN <<>>
    ELSE <<Link(name, option, outcome.items[1][1])>>

\* links.extend(Link(node.name, option, name) for name in outcome.keys())
BranchLinks(name, option, outcome) ==
    [i \in 1..Len(outcome.items) |-> Link(name, option, outcome.items[i][1])]

\* Slip: only the first entry of the nested mapping is pushed.
BranchNodesFirstOnly(id, outcome, bidx) ==
    IF outcome.items = <<>> THEN <<>>
    ELSE <<Node(outcome.items[1][1], outcome.items[1][2], ChildId(id, 0, bidx))>>

\* nodes.extend(Node(event, outcomes, node.id + f"-{idx+branch_idx}") ...)
BranchNodes(id, outcome, bidx) ==
    [i \in 1..Len(outcome.items) |->
        Node(outcome.items[i][1], outcome.items[i][2], ChildId(id, i - 1, bidx))]

\* Slip: branch_idx is never advanced, every nested mapping restarts at 0.
NextBranchIdxReset(bidx, outcome) == bidx

NextBranchIdx(bidx, outcome) == bidx + Len(outcome.items)

\* Slip: only the None result is tested, empty lists pass.
GraphMissingNoneOnly(r, ev, lb, lk) == r = "none"

\* not events or not labels or not links
GraphMissing(r, ev, lb, lk) == r = "none" \/ ev = <<>> \/ lb = <<>> \/ lk = <<>>

\* ------------------------------------------------------------------ Init
Init ==
    /\ content \in Docs
    /\ pc = "check"
    /\ ret = "pending"
    /\ nodes = <<>>
    /\ node = NoNode
    /\ todo = 0
    /\ branch_idx = 0
    /\ events = <<>>
    /\ labels = <<>>
    /\ links = <<>>
    /\ chart = NoChart
    /\ exported = <<>>
    /\ message = "none"
    /\ visited = <<>>

\* --------------------------------------------------------------- actions
\* Lines 197-200: the syntax gate; st.stop() ends the run.
SyntaxError ==
    /\ pc = "check"
    /\ ~check_json_health(content)
    /\ pc' = "syntax_error"
    /\ message' = "error"
    /\ UNCHANGED <<content, ret, nodes, node, todo, branch_idx, events, labels,
                   links, chart, exported, visited>>

\* Lines 205, 63-72: parse_story is entered; a bad root returns None thrice.
ParseStoryEnter ==
    /\ pc = "check"
    /\ check_json_health(content)
    /\ LET story_data == Loads(content).val IN
       IF BadRoot(story_data)
       THEN /\ ret' = "none"
            /\ pc' = "gate"
            /\ UNCHANGED nodes
       ELSE /\ nodes' = SeedNodes(story_data)
            /\ pc' = "loop"
            /\ UNCHANGED ret
    /\ UNCHANGED <<content, node, todo, branch_idx, events, labels, links, chart,
                   exported, message, visited>>

\* Lines 73-81: pop, reset branch_idx, register the name, enter the for loop
\* (node.children.items() raises AttributeError when children is a string).
Pop ==
    /\ pc = "loop"
    /\ nodes # <<>>
    /\ LET n == ListPop(nodes).node
           reg == Register(events, labels, n.name, n.id) IN
       /\ node' = n
       /\ nodes' = ListPop(nodes).rest
       /\ visited' = Append(visited, n)
       /\ branch_idx' = 0
       /\ events' = reg.events
       /\ labels' = reg.labels
       /\ todo' = 1
       /\ pc' = IF n.children.kind # "dict" THEN "attr_error"
                ELSE IF n.children.items = <<>> THEN "loop" ELSE "options"
    /\ UNCHANGED <<content, ret, links, chart, exported, message>>

\* Lines 81-95: one iteration of the for loop over the node's options.
ProcessOption ==
    /\ pc = "options"
    /\ LET option == node.children.items[todo][1]
           outcome == node.children.items[todo][2] IN
       IF outcome.kind = "dict"
       THEN /\ links' = links \o BranchLinks(node.name, option, outcome)
            /\ nodes' = nodes \o BranchNodes(node.id, outcome, branch_idx)
            /\ branch_idx' = NextBranchIdx(branch_idx, outcome)
            /\ UNCHANGED <<events, labels>>
       ELSE LET reg == Register(events, labels, outcome.s, EndId(node.id)) IN
            /\ links' = Append(links, Link(node.name, option, outcome.s))
            /\ events' = reg.events
            /\ labels' = reg.labels
            /\ UNCHANGED <<nodes, branch_idx>>
    /\ todo' = todo + 1
    /\ pc' = IF todo = Len(node.children.items) THEN "loop" ELSE "options"
    /\ UNCHANGED <<content, ret, node, chart, exported, message, visited>>

\* Line 96: the work list is empty.
Return ==
    /\ pc = "loop"
    /\ nodes = <<>>
    /\ ret' = "graph"
    /\ pc' = "gate"
    /\ UNCHANGED <<content, nodes, node, todo, branch_idx, events, labels, links,
                   chart, exported, message, visited>>

\* Lines 206-209: the shape gate; st.stop() ends the run.
ShapeError ==
    /\ pc = "gate"
    /\ GraphMissing(ret, events, labels, links)
    /\ pc' = "shape_error"
    /\ message' = "error"
    /\ UNCHANGED <<content, ret, nodes, node, todo, branch_idx, events, labels,
                   links, chart, exported, visited>>

\* Lines 210-237: the chart's index lists (events.index raises ValueError for
\* a name that is not in events).
Render ==
    /\ pc = "gate"
    /\ ~GraphMissing(ret, events, labels, links)
    /\ LET sources == [i \in 1..Len(links) |-> Index(events, links[i].event)]
           targets == [i \in 1..Len(links) |-> Index(events, links[i].children)]
           options == [i \in 1..Len(links) |-> links[i].option] IN
       IF \E i \in 1..Len(links) : sources[i] = 0 \/ targets[i] = 0
       THEN pc' = "index_error" /\ UNCHANGED chart
       ELSE /\ pc' = "rendered"
            /\ chart' = [drawn |-> TRUE, sources |-> sources, targets |-> targets,
                         options |-> options]
    /\ UNCHANGED <<content, ret, nodes, node, todo, branch_idx, events, labels,
                   links, exported, message, visited>>

\* Lines 240-247: the upload form.  A submitted file that passes the syntax
\* check is re-serialised into st.session_state["content"]; Streamlit
\* versions that forbid assigning the key of a widget that this run has
\* already created raise at line 246 instead and leave the content alone.
UploadForm ==
    /\ pc = "rendered"
    /\ \E submitted \in BOOLEAN, file \in UploadFiles \cup {<<>>} :
          IF ~submitted
          THEN pc' = "export" /\ UNCHANGED content
          ELSE IF file = <<>>
               THEN pc' = "say_warning" /\ UNCHANGED content
               ELSE IF ~check_json_health(file)
                    THEN pc' = "say_error" /\ UNCHANGED content
                    ELSE \/ content' = Dumps(Loads(file).val) /\ pc' = "say_success"
                         \/ pc' = "state_error" /\ UNCHANGED content
    /\ UNCHANGED <<ret, nodes, node, todo, branch_idx, events, labels, links,
                   chart, exported, message, visited>>

\* Lines 249, 251, 253: st.success, st.error or st.warning of the form.
Notify ==
    /\ pc \in {"say_success", "say_error", "say_warning"}
    /\ message' = IF pc = "say_success" THEN "success"
                  ELSE IF pc = "say_error" THEN "error" ELSE "warning"
    /\ pc' = "export"
    /\ UNCHANGED <<content, ret, nodes, node, todo, branch_idx, events, labels,
                   links, chart, exported, visited>>

\* Lines 255-262: the download button's data, the content re-serialised.
Export ==
    /\ pc = "export"
    /\ exported' = Dumps(Loads(content).val)
    /\ pc' = "done"
    /\ UNCHANGED <<content, ret, nodes, node, todo, branch_idx, events, labels,
                   links, chart, message, visited>>

\* Texts the user's next edit in the editor can leave behind, besides
\* striking one token out of a valid document.
EditTargets ==
    { <<>>, <<"{", "}">>, DefaultContent, Scenario1Doc, Scenario2Doc,
      <<"{", "S", ":", "{", "A", ":", "}">>,
      <<"{", "S", ":", "{", "A", ":", "E1", "}", "}">>,
      <<"{", "S", ":", "{", "}", "}">> }

\* What the editor widget (lines 112-124, key "content") can hold when the
\* next run starts: the same text, or an edited one.
EditedTexts(text) ==
    {text} \cup EditTargets
        \cup (IF text \in ValidDocs THEN {DeleteAt(text, i) : i \in 1..Len(text)} ELSE {})

\* The script is run again from the top, after an edit in the editor, an
\* upload or a settings change.  The run before it has ended (st.stop, an
\* uncaught exception or the last line), or is abandoned on entry to or
\* inside one of its st.* calls: the widgets before the preview, st.error
\* and st.plotly_chart, the form, its message, the download button.
Rerun ==
    /\ pc \in {"check", "gate", "rendered", "say_success", "say_error", "say_warning",
               "export", "done", "syntax_error", "shape_error", "attr_error",
               "index_error", "state_error"}
    /\ \E text \in EditedTexts(content) : content' = text
    /\ pc' = "check"
    /\ ret' = "pending"
    /\ nodes' = <<>>
    /\ node' = NoNode
    /\ todo' = 0
    /\ branch_idx' = 0
    /\ events' = <<>>
    /\ labels' = <<>>
    /\ links' = <<>>
    /\ chart' = NoChart
    /\ exported' = <<>>
    /\ message' = "none"
    /\ visited' = <<>>

Next ==
    \/ SyntaxError
    \/ ParseStoryEnter
    \/ Pop
    \/ ProcessOption
    \/ Return
    \/ ShapeError
    \/ Render
    \/ UploadForm
    \/ Notify
    \/ Export
    \/ Rerun

Spec == Init /\ [][Next]_vars

\* ------------------------------------------- the story tree, by recursion
\* What the claims speak about, computed on the decoded document itself.
Healthy == Loads(content).ok

Tree == Loads(content).val

Range(xs) == {xs[i] : i \in 1..Len(xs)}

NoDup(xs) == \A i, j \in 1..Len(xs) : i # j => xs[i] # xs[j]

Count(xs, x) == Cardinality({i \in 1..Len(xs) : xs[i] = x})

RECURSIVE Flatten(_)

Flatten(xss) == IF xss = <<>> THEN <<>> ELSE Head(xss) \o Flatten(Tail(xss))

RECURSIVE SumSeq(_)

SumSeq(ns) == IF ns = <<>> THEN 0 ELSE Head(ns) + SumSeq(Tail(ns))

\* Every event maps to a mapping whose values are strings or story trees.
RECURSIVE WellFormed(_)

WellFormed(tree) ==
    /\ tree.kind = "dict"
    /\ \A i \in 1..Len(tree.items) :
          LET opts == tree.items[i][2] IN
          /\ opts.kind = "dict"
          /\ \A j \in 1..Len(opts.items) :
                opts.items[j][2].kind = "str" \/ WellFormed(opts.items[j][2])

\* Number of occurrences of a name in the tree, as an event or as a terminal outcome.
RECURSIVE Occurrences(_, _)

Occurrences(name, tree) ==
    SumSeq([i \in 1..Len(tree.items) |->
        (IF tree.items[i][1] = name THEN 1 ELSE 0)
        + SumSeq([j \in 1..Len(tree.items[i][2].items) |->
            LET outcome == tree.items[i][2].items[j][2] IN
            IF outcome.kind = "str"
            THEN (IF outcome.s = name THEN 1 ELSE 0)
            ELSE Occurrences(name, outcome)])])

\* Names that occur in the tree.
RECURSIVE Names(_)

Names(tree) ==
    UNION { {tree.items[i][1]} \cup
            UNION { LET outcome == tree.items[i][2].items[j][2] IN
                    IF outcome.kind = "str" THEN {outcome.s} ELSE Names(outcome)
                    : j \in 1..Len(tree.items[i][2].items) }
          : i \in 1..Len(tree.items) }

\* Number of event occurrences of the tree.
RECURSIVE EventCount(_)

EventCount(tree) ==
    SumSeq([i \in 1..Len(tree.items) |->
        1 + SumSeq([j \in 1..Len(tree.items[i][2].items) |->
            LET outcome == tree.items[i][2].items[j][2] IN
            IF outcome.kind = "str" THEN 0 ELSE EventCount(outcome)])])

\* Number of option edges <<event, option, target>> of the tree equal to the triple e.
RECURSIVE EdgeCount(_, _)

EdgeCount(e, tree) ==
    SumSeq([i \in 1..Len(tree.items) |->
        SumSeq([j \in 1..Len(tree.items[i][2].items) |->
            LET option == tree.items[i][2].items[j][1]
                outcome == tree.items[i][2].items[j][2] IN
            IF outcome.kind = "str"
            THEN (IF e = Link(tree.items[i][1], option, outcome.s) THEN 1 ELSE 0)
            ELSE Count([k \in 1..Len(outcome.items) |->
                          Link(tree.items[i][1], option, outcome.items[k][1])], e)
                 + EdgeCount(e, outcome)])])

\* Number of option edges of the tree.
RECURSIVE Edges(_)

Edges(tree) ==
    SumSeq([i \in 1..Len(tree.items) |->
        SumSeq([j \in 1..Len(tree.items[i][2].items) |->
            LET outcome == tree.items[i][2].items[j][2] IN
            IF outcome.kind = "str" THEN 1
            ELSE Len(outcome.items) + Edges(outcome)])])

\* The entries of all nested mappings among an event's options, in mapping order.
Kids(opts) ==
    Flatten([j \in 1..Len(opts.items) |->
        IF opts.items[j][2].kind = "dict" THEN opts.items[j][2].items ELSE <<>>])

\* Depth-first walk with siblings reversed, by plain recursion: the last
\* sibling, then its whole subtree, then the siblings before it.
RECURSIVE RefWalk(_)

RefWalk(sibs) ==
    IF sibs = <<>> THEN <<>>
    ELSE LET last == sibs[Len(sibs)] IN
         <<last>> \o RefWalk(Kids(last[2])) \o RefWalk(SubSeq(sibs, 1, Len(sibs) - 1))

\* The triples of one event occurrence, option by option.
EntryLinks(entry) ==
    Flatten([j \in 1..Len(entry[2].items) |->
        LET option == entry[2].items[j][1]
            outcome == entry[2].items[j][2] IN
        IF outcome.kind = "str" THEN <<Link(entry[1], option, outcome.s)>>
        ELSE [k \in 1..Len(outcome.items) |-> Link(entry[1], option, outcome.items[k][1])]])

Returned == pc = "gate" /\ ret = "graph"

VisitedEntries == [i \in 1..Len(visited) |-> <<visited[i].name, visited[i].children>>]

TerminalOptions(n) ==
    Cardinality({j \in 1..Len(n.children.items) : n.children.items[j][2].kind = "str"})

\* ----------------------------------------------------------------- claims
\* C1 -- Completeness: when parse_story has returned a graph, every link's
\* source and target name is in events, and the chart's events.index lookups
\* never fail (the run never crashes after the return).
Completeness ==
    ret = "graph" =>
        /\ pc # "index_error"
        /\ \A i \in 1..Len(links) :
              links[i].event \in Range(events) /\ links[i].children \in Range(events)

\* A chart was drawn for a story with a nested event that was linked before
\* it was registered.
CompletenessWitness ==
    /\ chart.drawn
    /\ \E i \in 1..Len(links), j \in 2..Len(visited) :
          links[i].children = visited[j].name /\ Index(events, visited[j].name) > 1

\* C2 -- No orphan labels: after each pop, after each option and at return,
\* events and labels have the same length and no labels entry is empty.
NoOrphanLabels ==
    (pc \in {"loop", "options"} \/ ret = "graph") =>
        /\ Len(events) = Len(labels)
        /\ \A i \in 1..Len(labels) : labels[i] # <<>>

\* In the middle of the loop, with a name that has been seen twice.
NoOrphanLabelsWitness ==
    /\ pc = "options"
    /\ Len(events) >= 2
    /\ \E i \in 1..Len(labels) : Len(labels[i]) >= 2

\* C3 (as claimed) -- no path_id is recorded twice over all entries of labels.
PathIdUniqueClaim == Returned => NoDup(Flatten(labels))

\* C3 (amended) -- every visited node's path_id is recorded exactly once and
\* is nobody's "-end" id; a node's "-end" id is recorded once per terminal
\* option of that node, and nothing else is recorded.
PathIdUniquePerNode ==
    Returned =>
        LET ids == Flatten(labels) IN
        /\ \A i \in 1..Len(visited) :
              /\ Count(ids, visited[i].id) = 1
              /\ Count(ids, EndId(visited[i].id)) = TerminalOptions(visited[i])
              /\ \A j \in 1..Len(visited) :
                    /\ visited[i].id # EndId(visited[j].id)
                    /\ i # j => visited[i].id # visited[j].id
        /\ Len(ids) = Len(visited)
                        + SumSeq([i \in 1..Len(visited) |-> TerminalOptions(visited[i])])

\* A returned walk with two nodes under one parent and an "-end" id recorded twice.
PathIdUniquePerNodeWitness ==
    /\ Returned
    /\ \E i, j \in 1..Len(visited) :
          /\ i # j
          /\ visited[i].id = "A-0"
          /\ visited[j].id = "A-1"
    /\ \E i \in 1..Len(visited) : TerminalOptions(visited[i]) >= 2

\* C4 (as claimed) -- Scenario 1 yields labels [["A"],["A-end"],["B-end"]].
Scenario1Claim ==
    (Returned /\ content = Scenario1Doc) =>
        /\ events = <<"S", "E1", "E2">>
        /\ labels = << <<"A">>, <<"A-end">>, <<"B-end">> >>
        /\ links = <<Link("S", "A", "E1"), Link("S", "B", "E2")>>

\* C4 (amended) -- Scenario 1 yields events [S, E1, E2], links [(S,A,E1),
\* (S,B,E2)] and labels [["A"],["A-end"],["A-end"]]: both outcomes carry the
\* "-end" id of the one node S.
Scenario1Result ==
    (Returned /\ content = Scenario1Doc) =>
        /\ events = <<"S", "E1", "E2">>
        /\ labels = << <<"A">>, <<"A-end">>, <<"A-end">> >>
        /\ links = <<Link("S", "A", "E1"), Link("S", "B", "E2")>>

Scenario1Witness == Returned /\ content = Scenario1Doc /\ Len(links) = 2

\* The nodes pushed by the step from one state to the next.
Pushed == SubSeq(nodes', Len(nodes) + 1, Len(nodes'))

\* The option the for loop is at is a nested mapping.
AtBranch == pc = "options" /\ node.children.items[todo][2].kind = "dict"

\* Entries of the nested mappings among the first k options of a node.
EntriesBefore(opts, k) ==
    SumSeq([j \in 1..k |->
        IF opts.items[j][2].kind = "dict" THEN Len(opts.items[j][2].items) ELSE 0])

\* C5 (as claimed) -- the k-th entry of every nested mapping is pushed with
\* path_id node.id-k, k restarting at 0 for every nested mapping.
IndexResetClaim ==
    [][AtBranch =>
        LET outcome == node.children.items[todo][2] IN
        /\ Len(Pushed) = Len(outcome.items)
        /\ \A k \in 1..Len(outcome.items) :
              Pushed[k].id = node.id \o "-" \o ToString(k - 1)]_vars

\* C5 (amended) -- the k-th entry of a nested mapping is pushed with path_id
\* node.id-(k + b), b being the number of entries of the nested mappings of
\* the node's earlier options: a running counter across the node's options.
IndexRunsOn ==
    [][AtBranch =>
        LET outcome == node.children.items[todo][2] IN
        /\ Len(Pushed) = Len(outcome.items)
        /\ \A k \in 1..Len(outcome.items) :
              /\ Pushed[k].name = outcome.items[k][1]
              /\ Pushed[k].children = outcome.items[k][2]
              /\ Pushed[k].id = node.id \o "-"
                    \o ToString(k - 1 + EntriesBefore(node.children, todo - 1))]_vars

\* The second nested mapping of a node has been pushed.
IndexRunsOnWitness ==
    /\ pc \in {"options", "loop"}
    /\ nodes # <<>>
    /\ \E i, j \in 1..(todo - 1) :
          /\ i < j
          /\ j <= Len(node.children.items)
          /\ node.children.items[i][2].kind = "dict"
          /\ node.children.items[i][2].items # <<>>
          /\ node.children.items[j][2].kind = "dict"
          /\ node.children.items[j][2].items # <<>>
    /\ nodes[Len(nodes)].id = node.id \o "-" \o ToString(branch_idx - 1)
    /\ branch_idx >= 2

\* C6 -- Deduplication keeps every occurrence: at return every name of the
\* tree is in events exactly once and labels[i] has one path_id per
\* occurrence of events[i]; Scenario 3 gives events [S, E1] and two distinct
\* path_ids for S.
DedupKeepsOccurrences ==
    Returned =>
        /\ NoDup(events)
        /\ Range(events) = Names(Tree)
        /\ Len(labels) = Len(events)
        /\ \A i \in 1..Len(events) : Len(labels[i]) = Occurrences(events[i], Tree)
        /\ content = Scenario3Doc =>
              /\ events = <<"S", "E1">>
              /\ Len(labels[1]) = 2
              /\ labels[1][1] # labels[1][2]

DedupWitness ==
    /\ Returned
    /\ content = Scenario3Doc
    /\ Len(visited) = 2

\* C7 -- links has exactly one triple per option edge of the tree, and the
\* triples of one visited node are contiguous, in the order of its options.
OneLinkPerEdge ==
    Returned =>
        /\ Len(links) = Edges(Tree)
        /\ \A i \in 1..Len(links) : Count(links, links[i]) = EdgeCount(links[i], Tree)
        /\ links = Flatten([i \in 1..Len(visited) |->
                               EntryLinks(<<visited[i].name, visited[i].children>>)])

OneLinkPerEdgeWitness ==
    /\ Returned
    /\ content = Scenario2Doc
    /\ links = <<Link("S", "A", "T"), Link("S", "B", "E2"), Link("T", "C", "E1")>>

\* The run has not passed the upload form, its document is still the content.
ThisRun ==
    /\ pc \notin {"say_success", "say_error", "say_warning", "export", "done", "state_error"}
    /\ Healthy

\* C8 (as claimed) -- the story-shape error is raised exactly when the root
\* is not a non-empty mapping; every story tree with a top-level entry is rendered.
OnlyRootFailsClaim ==
    ThisRun =>
        /\ pc = "shape_error" => BadRoot(Tree)
        /\ BadRoot(Tree) => pc \in {"check", "gate", "shape_error"}
        /\ (WellFormed(Tree) /\ ~BadRoot(Tree)) => pc \notin {"shape_error", "attr_error", "index_error"}

\* The tree has no option edge: parse_story returns an empty links list.
NoEdges(tree) == WellFormed(tree) /\ Edges(tree) = 0

\* C8 (amended) -- the story-shape error is raised exactly when the root is
\* not a non-empty mapping or the tree has no option edge at all; every story
\* tree with a top-level entry and at least one option edge is rendered
\* without error.
ShapeFailures ==
    ThisRun =>
        /\ pc = "shape_error" => (BadRoot(Tree) \/ NoEdges(Tree))
        /\ BadRoot(Tree) => pc \in {"check", "gate", "shape_error"}
        /\ (~BadRoot(Tree) /\ NoEdges(Tree)) =>
              pc \in {"check", "loop", "options", "gate", "shape_error"}
        /\ (WellFormed(Tree) /\ ~BadRoot(Tree) /\ ~NoEdges(Tree)) =>
              /\ pc \notin {"shape_error", "attr_error", "index_error"}
              /\ Returned => ~GraphMissing(ret, events, labels, links)
        /\ pc = "rendered" => (WellFormed(Tree) /\ ~BadRoot(Tree) /\ ~NoEdges(Tree))

\* The shape error of a story with events but no option.
ShapeFailuresWitness ==
    /\ pc = "shape_error"
    /\ Healthy
    /\ ~BadRoot(Tree)
    /\ events # <<>>

Failed == {"syntax_error", "shape_error"}

\* C9 -- Errors stop the cycle before rendering: parse_story runs only on
\* valid JSON, the chart is drawn only after the syntax check and the
\* flattening succeeded, and after either failure nothing downstream runs
\* in that run and the run leaves the document text unchanged (the text
\* changes only by the upload of a rendered run or with the start of a new run).
ErrorsStopTheCycle ==
    /\ [](pc \notin {"check", "syntax_error"} => Healthy)
    /\ [](pc = "syntax_error" => (ret = "pending" /\ events = <<>> /\ visited = <<>>))
    /\ [](chart.drawn => (ret = "graph" /\ links # <<>> /\ events # <<>>))
    /\ [](pc \in Failed => (~chart.drawn /\ exported = <<>> /\ message = "error"))
    /\ [][(pc' \in Failed) => content' = content]_vars
    /\ [][(content' # content) => (pc = "rendered" \/ pc' = "check")]_vars
    /\ [][(pc \in Failed) => (pc' = "check")]_vars

ErrorsStopTheCycleWitness ==
    /\ pc = "syntax_error"
    /\ Len(content) >= 3
    /\ message = "error"

\* C10 -- LIFO visit order: the nodes are visited depth-first with siblings
\* reversed (top-level events in reverse input order, the last pushed child
\* first, a node's descendants before the nodes that were below it on the
\* stack), and the loop ends with an empty stack, every event occurrence
\* visited exactly once.
LifoVisitOrder ==
    /\ []((pc \in {"loop", "options"} \/ Returned) =>
             Len(visited) + Len(nodes) <= EventCount(Tree))
    /\ [][(pc = "loop" /\ nodes # <<>>) =>
             /\ node' = nodes[Len(nodes)]
             /\ visited' = Append(visited, nodes[Len(nodes)])
             /\ nodes' = SubSeq(nodes, 1, Len(nodes) - 1)]_vars
    /\ [][(pc = "loop" /\ pc' = "gate") => nodes = <<>>]_vars
    /\ [](Returned =>
             /\ nodes = <<>>
             /\ VisitedEntries = RefWalk(Tree.items)
             /\ Len(visited) = EventCount(Tree)
             /\ LET top == SelectSeq(visited,
                              LAMBDA n : \E i \in 1..Len(Tree.items) : n.id = SeedId(i - 1))
                IN /\ Len(top) = Len(Tree.items)
                   /\ \A i \in 1..Len(top) :
                         top[i].name = Tree.items[Len(top) - i + 1][1])

\* A child of the second top-level event was visited before the first one.
LifoVisitOrderWitness ==
    /\ Returned
    /\ Len(visited) >= 3
    /\ visited[1].id = "B"
    /\ visited[2].id = "B-0"
    /\ visited[Len(visited)].id = "A"

====
